---- MODULE Spec2Model ----
(***************************************************************************)
(* `cargo query <type>`: src/bin/cargo/commands/query.rs.                  *)
(*                                                                         *)
(* The state machine follows one invocation of the subcommand: the command *)
(* line is validated (cli), exec parses the category, loads the workspace, *)
(* resolves the compile options, builds the picker options                 *)
(* (make_skim_options), runs the picker (fuzzy_choose), joins the chosen   *)
(* items (convert_selected_items_to_string) and prints them.               *)
(*                                                                         *)
(* Strings are sequences of one-character strings, so that case folding,   *)
(* joining and line splitting are computed and not assumed.                *)
(***************************************************************************)
EXTENDS Integers, Sequences, FiniteSets, TLC

VARIABLES
    token,          \* the raw <type> argument as typed by the user
    pc,             \* position of the invocation
    query_target,   \* exec's query_target ("none" before it is parsed)
    ws_targets,     \* the workspace's targets, in enumeration order
    ws_profiles,    \* the profile names the Profiles context knows
    mode,           \* CompileMode handed to compile_options
    profs_built,    \* Profiles::new has returned Ok
    options,        \* MySkimOptions built by make_skim_options
    items,          \* texts of the items read from options.input
    skim_out,       \* what Skim::run_with returned: "pending", "None", "Some"
    skim_res,       \* SkimOutput: final_event and selected_items
    chosen,         \* the Vec returned by fuzzy_choose
    stdout,         \* the writes made to stdout, oldest first
    outcome,        \* "running", "ok", "err", "exit" (clap exit), "panic"
    errKind,        \* which error ended the invocation
    nEnum,          \* number of candidate enumerations started
    nPicker         \* number of picker sessions started

vars == <<token, pc, query_target, ws_targets, ws_profiles, mode, profs_built,
          options, items, skim_out, skim_res, chosen, stdout, outcome, errKind,
          nEnum, nPicker>>

----------------------------------------------------------------------------
(* Bounds *)

MaxTargets == 2

MaxSel == 3

BoundedSeq(S, n) == UNION {[1..k -> S] : k \in 0..n}

----------------------------------------------------------------------------
(* Characters and strings *)

LowerLetters ==
    <<"a","b","c","d","e","f","g","h","i","j","k","l","m",
      "n","o","p","q","r","s","t","u","v","w","x","y","z">>

UpperLetters ==
    <<"A","B","C","D","E","F","G","H","I","J","K","L","M",
      "N","O","P","Q","R","S","T","U","V","W","X","Y","Z">>

NL == "\n"

Comma == ","

to_ascii_lowercase_char(c) ==
    IF \E i \in 1..Len(UpperLetters) : UpperLetters[i] = c
    THEN LowerLetters[CHOOSE i \in 1..Len(UpperLetters) : UpperLetters[i] = c]
    ELSE c

to_ascii_uppercase_char(c) ==
    IF \E i \in 1..Len(LowerLetters) : LowerLetters[i] = c
    THEN UpperLetters[CHOOSE i \in 1..Len(LowerLetters) : LowerLetters[i] = c]
    ELSE c

to_ascii_lowercase(s) == [i \in 1..Len(s) |-> to_ascii_lowercase_char(s[i])]

to_ascii_uppercase(s) == [i \in 1..Len(s) |-> to_ascii_uppercase_char(s[i])]

eq_ignore_ascii_case(a, b) == to_ascii_lowercase(a) = to_ascii_lowercase(b)

----------------------------------------------------------------------------
(* QueryTargets: the enum, as_ref, from_str, the clap possible values *)

Categories == {"Binaries", "Examples", "Tests", "Benches", "Features", "Profile"}

lit_binaries == <<"b","i","n","a","r","i","e","s">>
lit_examples == <<"e","x","a","m","p","l","e","s">>
lit_tests    == <<"t","e","s","t","s">>
lit_benches  == <<"b","e","n","c","h","e","s">>
lit_features == <<"f","e","a","t","u","r","e","s">>
lit_profile  == <<"p","r","o","f","i","l","e">>

as_ref(c) ==
    CASE c = "Binaries" -> lit_binaries
      [] c = "Examples" -> lit_examples
      [] c = "Tests"    -> lit_tests
      [] c = "Benches"  -> lit_benches
      [] c = "Features" -> lit_features
      [] c = "Profile"  -> lit_profile

\* FromStr for QueryTargets: an exact, case-sensitive match on the literal.
from_str(s) ==
    CASE s = lit_tests    -> "Tests"
      [] s = lit_binaries -> "Binaries"
      [] s = lit_examples -> "Examples"
      [] s = lit_benches  -> "Benches"
      [] s = lit_features -> "Features"
      [] s = lit_profile  -> "Profile"
      [] OTHER            -> "Err"

\* derive(ArgEnum): one possible value per variant, its name in lower case.
possible_values ==
    {lit_binaries, lit_examples, lit_tests, lit_benches, lit_features, lit_profile}

\* The positional argument was not given at all.
NoArg == <<"<absent>">>

\* Arg::possible_values(..).ignore_case(true): the value is accepted when it
\* equals a possible value up to ASCII case; the stored value stays as typed.
cli_accepts(tok) ==
    \/ tok = NoArg
    \/ \E pv \in possible_values : eq_ignore_ascii_case(pv, tok)

Capitalized(s) == [i \in 1..Len(s) |-> IF i = 1 THEN to_ascii_uppercase_char(s[i]) ELSE s[i]]

Tokens ==
    possible_values
        \cup {to_ascii_uppercase(pv) : pv \in possible_values}
        \cup {Capitalized(pv) : pv \in possible_values}
        \cup {<<"t","e","s","t">>, <<"l","i","b","s">>, NoArg}

----------------------------------------------------------------------------
(* Workspace targets, predicates, build modes *)

TargetNames == {<<"a">>, <<"b","c">>}

TargetKinds == {"lib", "bin", "example", "test", "bench"}

Targets == [name : TargetNames, kind : TargetKinds]

Workspaces == BoundedSeq(Targets, MaxTargets)

ProfileLists ==
    {<<<<"d","e","v">>, <<"r","e","l">>>>,
     <<<<"d","e","v">>, <<"r","e","l">>, <<"t","e","s","t">>>>}

TargetCategories == {"Binaries", "Examples", "Tests", "Benches"}

\* Target::is_bin, is_example, is_test, is_bench
apply_pred(p, t) ==
    CASE p = "is_bin"     -> t.kind = "bin"
      [] p = "is_example" -> t.kind = "example"
      [] p = "is_test"    -> t.kind = "test"
      [] p = "is_bench"   -> t.kind = "bench"

as_target_pred_swapped(c) ==
    CASE c = "Binaries" -> "is_bin"
      [] c = "Tests"    -> "is_bench"
      [] c = "Benches"  -> "is_test"
      [] c = "Examples" -> "is_example"
      [] OTHER          -> "unimplemented"

as_target_pred(c) ==
    CASE c = "Binaries" -> "is_bin"
      [] c = "Tests"    -> "is_test"
      [] c = "Benches"  -> "is_bench"
      [] c = "Examples" -> "is_example"
      [] OTHER          -> "unimplemented"

allows_multi(c) ==
    CASE c \in {"Binaries", "Examples", "Tests", "Benches", "Profile"} -> FALSE
      [] c = "Features" -> TRUE

CompileModeFrom_default(val) ==
    CASE val \in {"Binaries", "Examples"} -> "Build"
      [] val = "Tests"    -> "Test"
      [] val = "Benches"  -> "Bench"
      [] val = "Profile"  -> "Build"
      [] val = "Features" -> "Build"

\* impl From<&QueryTargets> for CompileMode; "unimplemented" is the panic.
CompileModeFrom(val) ==
    CASE val \in {"Binaries", "Examples"} -> "Build"
      [] val = "Tests"    -> "Test"
      [] val = "Benches"  -> "Bench"
      [] val = "Profile"  -> "Build"
      [] val = "Features" -> "unimplemented"

\* get_available_targets: the names of the targets the predicate holds for,
\* in the workspace's order.
RECURSIVE get_available_targets(_, _)
get_available_targets(p, ws) ==
    IF ws = <<>> THEN <<>>
    ELSE IF apply_pred(p, Head(ws))
         THEN <<Head(ws).name>> \o get_available_targets(p, Tail(ws))
         ELSE get_available_targets(p, Tail(ws))

get_available_profiles(profs) == profs

----------------------------------------------------------------------------
(* Joining and line reading *)

\* [&str]::join("\n")
RECURSIVE slice_join(_, _)
slice_join(v, sep) ==
    IF v = <<>> THEN <<>>
    ELSE IF Len(v) = 1 THEN v[1]
    ELSE v[1] \o <<sep>> \o slice_join(Tail(v), sep)

\* itertools::join: the first element, then separator and element for each
\* of the rest.
RECURSIVE itertools_join_rest(_, _)
itertools_join_rest(v, sep) ==
    IF v = <<>> THEN <<>>
    ELSE <<sep>> \o v[1] \o itertools_join_rest(Tail(v), sep)

itertools_join(v, sep) ==
    IF v = <<>> THEN <<>>
    ELSE v[1] \o itertools_join_rest(Tail(v), sep)

\* SkimItemReader::of_bufread: one item per line of the input.
RECURSIVE read_lines(_, _)
read_lines(s, cur) ==
    IF s = <<>> THEN (IF cur = <<>> THEN <<>> ELSE <<cur>>)
    ELSE IF Head(s) = NL THEN <<cur>> \o read_lines(Tail(s), <<>>)
    ELSE read_lines(Tail(s), Append(cur, Head(s)))

of_bufread(input) == read_lines(input, <<>>)

convert_trailing_sep(its) ==
    IF its = <<>> THEN <<>> ELSE itertools_join(its, Comma) \o <<Comma>>

convert_selected_items_to_string(its) == itertools_join(its, Comma)

\* What a picker session can hand back as selected_items: under single
\* selection the item under the cursor, or nothing when no item matches;
\* under multi selection any run of distinct items.
Selections(its, multi) ==
    IF multi
    THEN {[i \in 1..Len(ix) |-> its[ix[i]]] :
            ix \in {s \in BoundedSeq(1..Len(its), MaxSel) :
                      \A i, j \in 1..Len(s) : i # j => s[i] # s[j]}}
    ELSE {<<>>} \cup {<<its[i]>> : i \in 1..Len(its)}

----------------------------------------------------------------------------
(* The invocation *)

NoOptions == [allows_multi |-> FALSE, prompt |-> <<>>, input |-> <<>>, abs_height |-> 0]

NoSkimRes == [final_event |-> "none", selected_items |-> <<>>]

Init ==
    /\ token \in Tokens
    /\ pc = "cli"
    /\ query_target = "none"
    /\ ws_targets = <<>>
    /\ ws_profiles = <<>>
    /\ mode = "none"
    /\ profs_built = FALSE
    /\ options = NoOptions
    /\ items = <<>>
    /\ skim_out = "pending"
    /\ skim_res = NoSkimRes
    /\ chosen = <<>>
    /\ stdout = <<>>
    /\ outcome = "running"
    /\ errKind = "none"
    /\ nEnum = 0
    /\ nPicker = 0

\* The invocation ends: `how` is "ok", "err", "exit" or "panic".
Finish(how, kind) ==
    /\ pc' = "done"
    /\ outcome' = how
    /\ errKind' = kind

\* clap validates the command line against cli() before exec is called.
CliParse ==
    /\ pc = "cli"
    /\ IF cli_accepts(token)
       THEN /\ pc' = "parse_type"
            /\ UNCHANGED <<outcome, errKind>>
       ELSE Finish("exit", "InvalidValue")
    /\ UNCHANGED <<token, query_target, ws_targets, ws_profiles, mode, profs_built,
                   options, items, skim_out, skim_res, chosen, stdout, nEnum, nPicker>>

\* let query_target: QueryTargets = args.value_of_t_or_exit("type");
ExecParseType ==
    /\ pc = "parse_type"
    /\ IF token = NoArg
       THEN /\ Finish("exit", "ArgumentNotFound")
            /\ UNCHANGED query_target
       ELSE IF from_str(token) = "Err"
       THEN /\ Finish("exit", "ValueValidation")
            /\ UNCHANGED query_target
       ELSE /\ query_target' = from_str(token)
            /\ pc' = "workspace"
            /\ UNCHANGED <<outcome, errKind>>
    /\ UNCHANGED <<token, ws_targets, ws_profiles, mode, profs_built,
                   options, items, skim_out, skim_res, chosen, stdout, nEnum, nPicker>>

\* let ws = args.workspace(config)?;
ExecWorkspace ==
    /\ pc = "workspace"
    /\ \/ /\ \E w \in Workspaces, p \in ProfileLists :
                /\ ws_targets' = w
                /\ ws_profiles' = p
          /\ pc' = "compile_opts"
          /\ UNCHANGED <<outcome, errKind>>
       \/ /\ Finish("err", "Workspace")
          /\ UNCHANGED <<ws_targets, ws_profiles>>
    /\ UNCHANGED <<token, query_target, mode, profs_built,
                   options, items, skim_out, skim_res, chosen, stdout, nEnum, nPicker>>

\* let compile_opts = args.compile_options(config, (&query_target).into(), ..)?;
\* the conversion is evaluated first, as an argument of the call.
ExecCompileOptions ==
    /\ pc = "compile_opts"
    /\ IF CompileModeFrom(query_target) = "unimplemented"
       THEN /\ Finish("panic", "NotImplemented")
            /\ UNCHANGED mode
       ELSE /\ mode' = CompileModeFrom(query_target)
            /\ \/ /\ pc' = "make_skim_options"
                  /\ UNCHANGED <<outcome, errKind>>
               \/ Finish("err", "CompileOptions")
    /\ UNCHANGED <<token, query_target, ws_targets, ws_profiles, profs_built,
                   options, items, skim_out, skim_res, chosen, stdout, nEnum, nPicker>>

MakeSkimOptionsProfiles_only_profile ==
    /\ pc = "make_skim_options"
    /\ IF query_target = "Profile"
       THEN \/ /\ profs_built' = TRUE
               /\ pc' = "enumerate"
               /\ UNCHANGED <<outcome, errKind>>
            \/ /\ Finish("err", "Profiles")
               /\ UNCHANGED profs_built
       ELSE /\ pc' = "enumerate"
            /\ UNCHANGED <<profs_built, outcome, errKind>>
    /\ UNCHANGED <<token, query_target, ws_targets, ws_profiles, mode,
                   options, items, skim_out, skim_res, chosen, stdout, nEnum, nPicker>>

\* make_skim_options, first statement:
\* let profs = Profiles::new(ws, compile_opts.build_config.requested_profile)?;
MakeSkimOptionsProfiles ==
    /\ pc = "make_skim_options"
    /\ \/ /\ profs_built' = TRUE
          /\ pc' = "enumerate"
          /\ UNCHANGED <<outcome, errKind>>
       \/ /\ Finish("err", "Profiles")
          /\ UNCHANGED profs_built
    /\ UNCHANGED <<token, query_target, ws_targets, ws_profiles, mode,
                   options, items, skim_out, skim_res, chosen, stdout, nEnum, nPicker>>

\* The MySkimOptions built from the enumerated names.
MySkimOptions(c, targets) ==
    [allows_multi |-> allows_multi(c),
     prompt       |-> as_ref(c),
     input        |-> slice_join(targets, NL),
     abs_height   |-> Len(targets) * 3]

\* make_skim_options, the rest: enumerate the candidates and build the options.
MakeSkimOptionsEnumerate ==
    /\ pc = "enumerate"
    /\ nEnum' = nEnum + 1
    /\ \/ /\ query_target \in TargetCategories
          /\ options' = MySkimOptions(query_target,
                            get_available_targets(as_target_pred(query_target), ws_targets))
          /\ pc' = "run_skim"
          /\ UNCHANGED <<outcome, errKind>>
       \/ /\ query_target \in TargetCategories
          /\ Finish("err", "Targets")
          /\ UNCHANGED options
       \/ /\ query_target = "Profile"
          /\ options' = MySkimOptions(query_target, get_available_profiles(ws_profiles))
          /\ pc' = "run_skim"
          /\ UNCHANGED <<outcome, errKind>>
    /\ UNCHANGED <<token, query_target, ws_targets, ws_profiles, mode, profs_built,
                   items, skim_out, skim_res, chosen, stdout, nPicker>>

FuzzyChooseRunSkim_none_as_empty ==
    /\ pc = "run_skim"
    /\ nPicker' = nPicker + 1
    /\ items' = of_bufread(options.input)
    /\ \/ /\ skim_out' = "None"
          /\ pc' = "convert"
          /\ UNCHANGED <<skim_res, outcome, errKind>>
       \/ /\ skim_out' = "Some"
          /\ \E ev \in {"accept", "abort"}, sel \in Selections(items', options.allows_multi) :
                skim_res' = [final_event |-> ev, selected_items |-> sel]
          /\ pc' = "final_event"
          /\ UNCHANGED <<outcome, errKind>>
    /\ UNCHANGED <<token, query_target, ws_targets, ws_profiles, mode, profs_built,
                   options, chosen, stdout, nEnum>>

\* fuzzy_choose: the items are read from the input, the picker runs, and a
\* None from Skim::run_with becomes Err("Internal skim error").
FuzzyChooseRunSkim ==
    /\ pc = "run_skim"
    /\ nPicker' = nPicker + 1
    /\ items' = of_bufread(options.input)
    /\ \/ /\ skim_out' = "None"
          /\ Finish("err", "InternalSkim")
          /\ UNCHANGED skim_res
       \/ /\ skim_out' = "Some"
          /\ \E ev \in {"accept", "abort"}, sel \in Selections(items', options.allows_multi) :
                skim_res' = [final_event |-> ev, selected_items |-> sel]
          /\ pc' = "final_event"
          /\ UNCHANGED <<outcome, errKind>>
    /\ UNCHANGED <<token, query_target, ws_targets, ws_profiles, mode, profs_built,
                   options, chosen, stdout, nEnum>>

FuzzyChooseFinalEvent_retry ==
    /\ pc = "final_event"
    /\ IF skim_res.final_event = "accept"
       THEN /\ chosen' = skim_res.selected_items
            /\ pc' = "convert"
       ELSE /\ chosen' = <<>>
            /\ pc' = "run_skim"
    /\ UNCHANGED <<token, query_target, ws_targets, ws_profiles, mode, profs_built,
                   options, items, skim_out, skim_res, stdout, outcome, errKind,
                   nEnum, nPicker>>

\* fuzzy_choose: match skim_res.final_event { EvActAccept(_) => Ok(selected_items),
\* _ => Ok(vec![]) }
FuzzyChooseFinalEvent ==
    /\ pc = "final_event"
    /\ chosen' = IF skim_res.final_event = "accept"
                 THEN skim_res.selected_items
                 ELSE <<>>
    /\ pc' = "convert"
    /\ UNCHANGED <<token, query_target, ws_targets, ws_profiles, mode, profs_built,
                   options, items, skim_out, skim_res, stdout, outcome, errKind,
                   nEnum, nPicker>>

\* if let Ok(it) = convert_selected_items_to_string(..) {
\*     config.shell().print_ansi_stdout(it.as_bytes())? };  Ok(())
ExecConvertPrint ==
    /\ pc = "convert"
    /\ \/ /\ stdout' = Append(stdout, convert_selected_items_to_string(chosen))
          /\ Finish("ok", "none")
       \/ /\ Finish("err", "Shell")
          /\ UNCHANGED stdout
    /\ UNCHANGED <<token, query_target, ws_targets, ws_profiles, mode, profs_built,
                   options, items, skim_out, skim_res, chosen, nEnum, nPicker>>

Next ==
    \/ CliParse
    \/ ExecParseType
    \/ ExecWorkspace
    \/ ExecCompileOptions
    \/ MakeSkimOptionsProfiles
    \/ MakeSkimOptionsEnumerate
    \/ FuzzyChooseRunSkim
    \/ FuzzyChooseFinalEvent
    \/ ExecConvertPrint

Spec == Init /\ [][Next]_vars

----------------------------------------------------------------------------
(* convert_selected_items_to_string on its own: any list of chosen items *)

JoinNames == {<<"a">>, <<"b","c">>, <<"t","l","s">>}

InitJoin ==
    /\ token = lit_features
    /\ pc = "convert"
    /\ query_target = "Features"
    /\ ws_targets = <<>>
    /\ ws_profiles = <<>>
    /\ mode = "none"
    /\ profs_built = FALSE
    /\ options = NoOptions
    /\ items = <<>>
    /\ skim_out = "Some"
    /\ chosen \in BoundedSeq(JoinNames, MaxSel)
    /\ skim_res = [final_event |-> "accept", selected_items |-> chosen]
    /\ stdout = <<>>
    /\ outcome = "running"
    /\ errKind = "none"
    /\ nEnum = 0
    /\ nPicker = 0

NextJoin == ExecConvertPrint

SpecJoin == InitJoin /\ [][NextJoin]_vars

----------------------------------------------------------------------------
(* Claims *)

\* C1: when the picker session ends with a final event other than accept,
\* the invocation fails with a Cancelled error; it does not complete
\* successfully and writes nothing, not even an empty result, to stdout.
C1_AbortFailsWithCancelled ==
    (pc = "done" /\ skim_res.final_event = "abort")
        => (outcome = "err" /\ errKind = "Cancelled" /\ stdout = <<>>)

\* C2: with category Features, once the workspace is loaded the invocation
\* ends with a returned UnsupportedCategory error, and the picker is never
\* started.
C2_FeaturesReturnsUnsupportedCategory ==
    (query_target = "Features" /\ pc = "done" /\ errKind # "Workspace")
        => (outcome = "err" /\ errKind = "UnsupportedCategory" /\ nPicker = 0)

\* C3: for every category except Features, an accepted selection that
\* reaches the output holds exactly one chosen string, and that string is
\* what is printed.
C3_SingleSelectHasExactlyOne ==
    (pc = "done" /\ outcome = "ok" /\ query_target # "Features"
        /\ skim_res.final_event = "accept")
        => (Len(chosen) = 1 /\ stdout = <<chosen[1]>>)

RECURSIVE C4_Offset(_, _)
C4_Offset(sel, i) ==
    IF i = 1 THEN 0 ELSE C4_Offset(sel, i - 1) + Len(sel[i - 1]) + 1

C4_IsCommaJoin(out, sel) ==
    /\ Len(out) = C4_Offset(sel, Len(sel)) + Len(sel[Len(sel)])
    /\ \A i \in 1..Len(sel) :
          SubSeq(out, C4_Offset(sel, i) + 1, C4_Offset(sel, i) + Len(sel[i])) = sel[i]
    /\ \A i \in 2..Len(sel) : out[C4_Offset(sel, i)] = Comma

\* C4: for an accepted selection s1..sn (n >= 1) exactly one text is written
\* to stdout: the chosen strings in the picker's order, a single comma
\* between neighbours, nothing before, after or in between; for n = 1 it is
\* the chosen string itself.
C4_OutputIsCommaJoinInOrder ==
    (pc = "done" /\ outcome = "ok" /\ Len(chosen) >= 1)
        => /\ Len(stdout) = 1
           /\ C4_IsCommaJoin(stdout[1], chosen)
           /\ (Len(chosen) = 1 => stdout[1] = chosen[1])

C4_Witness ==
    /\ pc = "done"
    /\ outcome = "ok"
    /\ Len(chosen) = 3
    /\ chosen[1] # chosen[2]
    /\ Len(stdout) = 1

\* C5: when Skim::run_with yields None the invocation ends with the internal
\* skim error, nothing chosen and nothing written to stdout; an invocation
\* whose picker session ended in an abort never ends with that error, so the
\* two outcomes differ.
C5_UIFailureIsDistinctError ==
    /\ skim_out = "None"
          => (pc = "done" /\ outcome = "err" /\ errKind = "InternalSkim"
                /\ stdout = <<>> /\ chosen = <<>>)
    /\ (pc = "done" /\ skim_res.final_event = "abort")
          => ~(outcome = "err" /\ errKind = "InternalSkim")

C5_Witness ==
    /\ skim_out = "None"
    /\ pc = "done"
    /\ nPicker = 1

\* C7: an invocation enumerates at most once, starts the picker at most once
\* and only after the enumeration returned the options, writes stdout at
\* most once and only after the picker returned, and takes no further step
\* once it has ended, whether by success, abort or error.
C7_OneCycleInOrder ==
    /\ nEnum <= 1
    /\ nPicker <= 1
    /\ Len(stdout) <= 1
    /\ nPicker = 1 => (nEnum = 1 /\ errKind # "Targets" /\ options.prompt = as_ref(query_target))
    /\ Len(stdout) = 1 => (nPicker = 1 /\ skim_out = "Some")
    /\ pc = "done" => ~ENABLED Next

C7_Witness ==
    /\ pc = "done"
    /\ skim_res.final_event = "abort"
    /\ nEnum = 1
    /\ nPicker = 1
    /\ Len(stdout) = 1

C8_KindOf(c) ==
    CASE c = "Binaries" -> "bin"
      [] c = "Examples" -> "example"
      [] c = "Tests"    -> "test"
      [] c = "Benches"  -> "bench"

C8_Matching(c) ==
    LET hit(t) == t.kind = C8_KindOf(c)
        kept   == SelectSeq(ws_targets, hit)
    IN  [i \in 1..Len(kept) |-> kept[i].name]

C9_ModeResolved ==
    /\ pc \notin {"cli", "parse_type", "workspace", "compile_opts"}
    /\ errKind # "Workspace"
    /\ outcome # "exit"

\* C9: once the build mode is resolved it is Build for Binaries, Examples
\* and Profile, Test for Tests and Bench for Benches; for Features no build
\* mode is ever produced and the invocation stops at the conversion.
C9_BuildModeMapping ==
    /\ (C9_ModeResolved /\ query_target \in {"Binaries", "Examples", "Profile"})
          => mode = "Build"
    /\ (C9_ModeResolved /\ query_target = "Tests") => mode = "Test"
    /\ (C9_ModeResolved /\ query_target = "Benches") => mode = "Bench"
    /\ query_target = "Features" => mode = "none"
    /\ (C9_ModeResolved /\ query_target = "Features")
          => (pc = "done" /\ outcome = "panic" /\ errKind = "NotImplemented")

C9_Witness ==
    /\ query_target = "Benches"
    /\ mode = "Bench"
    /\ pc = "make_skim_options"

\* C10: the profile context is built before anything is enumerated, for
\* every category that reaches make_skim_options; when building it fails the
\* invocation ends with that error, nothing enumerated, no options built, the
\* picker not started and nothing written.
C10_ProfilesBeforeEnumeration ==
    /\ nEnum >= 1 => profs_built
    /\ pc \in {"enumerate", "run_skim", "final_event", "convert"} => profs_built
    /\ errKind = "Profiles"
          => (pc = "done" /\ outcome = "err" /\ nEnum = 0 /\ nPicker = 0
                /\ options = NoOptions /\ stdout = <<>>)

C10_Witness ==
    /\ query_target = "Binaries"
    /\ errKind = "Profiles"
    /\ pc = "done"

\* C6: the category token is taken without regard to case: a token that is
\* one of the six names in any mix of upper and lower case passes the
\* command line and resolves to the variant of its lower-case spelling;
\* every other token is rejected.
C6_CaseInsensitiveCategory ==
    pc \notin {"cli", "parse_type"}
        => IF to_ascii_lowercase(token) \in possible_values
           THEN outcome # "exit" /\ query_target = from_str(to_ascii_lowercase(token))
           ELSE outcome = "exit"

====
